---------------------------- MODULE Spec2Model ----------------------------
(***************************************************************************)
(* Model of the download scripts of luna-virtual-terrian:                  *)
(*   download_lola_20mpp.py                 (static manifest)              *)
(*   download_lroc_nac_pole_south_cm_avg.py (directory listing)            *)
(*   download_lroc_nac_stereo_dtms_2-5mpp.py (catalog query)               *)
(* The first two scripts share remote_head, download_with_resume and the   *)
(* orchestration part of main line for line; the line numbers quoted in    *)
(* the comments are those of download_lola_20mpp.py unless a section       *)
(* names another script.                                                   *)
(*                                                                         *)
(* A file is a record [exists, size]: whether the path exists and its      *)
(* st_size.  Every remote object has RemoteLen bytes.                      *)
(***************************************************************************)
EXTENDS Integers, Sequences, FiniteSets, TLC

\* ------------------------------------------------------------------ bounds
RemoteLen == 2      \* Content-Length of every remote object
DiskCap == 3        \* no local file grows beyond this many bytes
MaxCalls == 2       \* calls the single-transfer harness makes in a row
MaxSel == 2         \* length of the --files list
MaxW == 2           \* largest --max-workers value
MaxRuns == 2        \* invocations of the script on one output directory
MaxVer == 2         \* length of the list given to verify_files
MaxList == 2        \* length of the lists given to filter_files
MaxHrefs == 3       \* hrefs in the page given to parse_index_for_filenames
MaxFiles == 3       \* length of the list given to choose_files

\* ------------------------------------------------------- program constants
max_retries == 6
BackoffCap == 30
XmlMinSize == 1024

Names == {"a", "b"}
JobIds == 1..MaxSel

\* remote_head's "no size" result, and the two shapes of a missing Range.
None == -1
NoRange == -1
EmptyRange == -2

VARIABLES
    fs,          \* the output directory: name -> [exists, size]
    dl,          \* one download_with_resume activation per job slot
    calls,       \* harness: calls made so far
    selected,    \* args.files
    max_workers, \* args.max_workers
    dry_run,     \* args.dry_run
    verify,      \* args.verify
    run,         \* number of the current invocation of the script
    interrupted, \* the invocation before this one was interrupted
    main_pc,     \* where main is
    existing,    \* main: the descriptors found on disk by the pre-filter
    remotes,     \* main: the descriptors left after the pre-filter
    queue,       \* the executor's work queue (indices into remotes)
    submitted,   \* number of futures created so far
    yielded,     \* futures as_completed has handed to the loop
    done,        \* main: the loop's counter
    exc,         \* an exception is propagating out of the pool block
    out,         \* catalog-query script: path -> [final, part] on disk
    sd,          \* catalog-query script: one stream_download activation
    o_pc,        \* catalog-query script: where main is
    o_args,      \* catalog-query script: args (bbox, mode, dry_run)
    tokens,      \* catalog-query script: main's tokens
    prod_json,   \* catalog-query script: the products of the query response
    product_files, \* catalog-query script: the (product, files) pairs
    filtered,    \* catalog-query script: the pairs inside the box
    o_pos,       \* catalog-query script: product and file the loop is at
    o_dir,       \* catalog-query script: out_dir and its metadata file
    o_hist,      \* catalog-query script: requests made, products reached
    v_script,    \* verify_files: the script it belongs to
    filenames,   \* verify_files: its argument, the names to verify
    v_disk,      \* verify_files: out_dir, name -> [exists, size]
    v_log,       \* verify_files: class and remote size per name handled
    v_count,     \* verify_files: complete, incomplete, missing
    v_pc,        \* verify_files: where it is
    all_names,   \* filter_files: its argument filenames
    f_args,      \* filter_files: include_ext and the four toggles
    f_i,         \* filter_files: names the loop has handled
    keep,        \* filter_files: the list it builds
    f_pc,        \* filter_files: where it is
    hrefs,       \* parse_index_for_filenames: the hrefs found in the page
    names,       \* parse_index_for_filenames: the names of the first loop
    uniq,        \* parse_index_for_filenames: its list out
    p_i,         \* parse_index_for_filenames: items the current loop handled
    p_pc,        \* parse_index_for_filenames: where it is
    rh,          \* remote_head: one activation and what its caller does next
    ch           \* choose_files: its arguments and its result

\* The variables of the parts of the model that are not the orchestrator
\* of download_lola_20mpp.py and its transfer engine.
verifyVars == <<v_script, filenames, v_disk, v_log, v_count, v_pc>>

odeVars == <<out, sd, o_pc, o_args, tokens, prod_json, product_files,
             filtered, o_pos, o_dir, o_hist>>

filterVars == <<all_names, f_args, f_i, keep, f_pc>>

parseVars == <<hrefs, names, uniq, p_i, p_pc>>

headVars == <<rh, ch>>

sideVars == <<odeVars, verifyVars, filterVars, parseVars, headVars>>

vars == <<fs, dl, calls, selected, max_workers, dry_run, verify, run, interrupted,
          main_pc, existing, remotes, queue, submitted, yielded, done, exc,
          sideVars>>

mainVars == <<selected, max_workers, dry_run, verify, run, interrupted, main_pc,
              existing, remotes, queue, submitted, yielded, done, exc>>

\* ----------------------------------------------------------------- helpers
Min(a, b) == IF a < b THEN a ELSE b

Max(a, b) == IF a > b THEN a ELSE b

RECURSIVE Pow2(_)
Pow2(n) == IF n = 0 THEN 1 ELSE 2 * Pow2(n - 1)

Absent == [exists |-> FALSE, size |-> 0]

FileOfLen(k) == [exists |-> TRUE, size |-> k]

\* The states a file can be in.
Files == {Absent} \cup {FileOfLen(k) : k \in 0..DiskCap}

\* out_path.stat().st_size if out_path.exists() else 0
StatSize(f) == IF f.exists THEN f.size ELSE 0

\* ------------------------------------- the catalog-query script: its disk
\* download_lroc_nac_stereo_dtms_2-5mpp.py writes out_dir/<pid>/<fn>; the
\* product identifiers and file names of the model consist of letters,
\* digits, '.', '_' and '-', which safe_filename (lines 31-33) keeps.
ProdIds == {"P1", "P2"}

\* A file name as the listing gives it: a stem, a derived-product tag
\* ("" for the main product) and an extension.
FileName(tag, ext) == [stem |-> "NAC_DTM_X", tag |-> tag, ext |-> ext]

DtmTif == FileName("", "TIF")

ShadeTif == FileName("_SHADE", "TIF")

DtmLbl == FileName("", "LBL")

DtmJpg == FileName("", "jpg")

FileNames == {DtmTif, ShadeTif, DtmLbl, DtmJpg}

\* out_path = prod_dir / fn
OutPaths == ProdIds \X FileNames

\* tmp_path = out_path.with_suffix(out_path.suffix + ".part"): each
\* destination has a sibling of its own, so the disk is a pair per path.
NoFile == [final |-> Absent, part |-> Absent]

\* The activation record of stream_download: the response's status and the
\* bytes of its body still to come; full, renamed and before record
\* whether the whole body was written, whether the rename was done and
\* what the destination held on entry, calls the calls made so far.
IdleSD == [pc |-> "idle", path |-> <<"P1", DtmTif>>, status |-> 0, body |-> 0,
           full |-> FALSE, renamed |-> FALSE, before |-> Absent, calls |-> 0]

\* What main has done so far: the answers to its discovery request, the
\* product queries sent, whether each fetch of a files page succeeded, the
\* products printed by the dry run, the products whose download was
\* begun, the calls of stream_download.
NoHist == [iipt |-> << >>, queries |-> 0, fetches |-> << >>,
           listed |-> << >>, visited |-> << >>, transfers |-> 0]

NoDir == [exists |-> FALSE, meta |-> FALSE]

MainIdle ==
    /\ o_pc = "idle"
    /\ o_args = [bbox |-> [minlat |-> 0, maxlat |-> 0, westlon |-> 0,
                           eastlon |-> 0],
                 mode |-> "dtm", dry_run |-> FALSE]
    /\ tokens = "none"
    /\ prod_json = << >>
    /\ product_files = << >>
    /\ filtered = << >>
    /\ o_pos = [i |-> 0, k |-> 0]
    /\ o_dir = NoDir
    /\ o_hist = NoHist

OdeIdle ==
    /\ out = [p \in OutPaths |-> NoFile]
    /\ sd = IdleSD
    /\ MainIdle

\* ------------------------------------------------------------ file names
\* A file name is the sequence of its parts between the dots: "A.MASK.TIF"
\* is <<"A", "MASK", "TIF">>.  str.lower works part by part.
LowerWord(w) ==
    CASE w = "A" -> "a"
      [] w = "TIF" -> "tif"
      [] w = "Tif" -> "tif"
      [] w = "MASK" -> "mask"
      [] w = "PYR" -> "pyr"
      [] w = "BROWSE" -> "browse"
      [] w = "PNG" -> "png"
      [] w = "XML" -> "xml"
      [] w = "ICO" -> "ico"
      [] w = "GIF" -> "gif"
      [] w = "X" -> "x"
      [] w = "README" -> "readme"
      [] w = "LBL" -> "lbl"
      [] OTHER -> w

Lower(name) == [i \in 1..Len(name) |-> LowerWord(name[i])]

\* name.endswith("." + ".".join(suf)): the last parts of the name are those
\* of suf, and a dot precedes them.
EndsWith(name, suf) ==
    /\ Len(name) > Len(suf)
    /\ \A i \in 1..Len(suf) : name[Len(name) - Len(suf) + i] = suf[i]

\* ------------------------------------------------------------ verify_files
\* The names, the local lengths and the remote sizes verify_files is run
\* on: lengths at and next to the sidecar threshold, and 0.
VNames == {<<"T", "tif">>, <<"L", "xml">>, <<"L", "XML">>}

VSizes == {0, XmlMinSize, XmlMinSize + 1}

VFiles == {Absent} \cup {FileOfLen(k) : k \in VSizes}

\* remote_head(session, url)
VHeadResults == {None} \cup VSizes

VerifyIdle ==
    /\ v_script = "lola"
    /\ filenames = << >>
    /\ v_disk = [n \in VNames |-> Absent]
    /\ v_log = << >>
    /\ v_count = [complete |-> 0, incomplete |-> 0, missing |-> 0]
    /\ v_pc = "idle"

\* ------------------------------------------------------------ filter_files
NoToggles == [include_ext |-> << >>, include_masks |-> FALSE,
              include_pyramids |-> FALSE, include_xml |-> FALSE,
              include_browse_png |-> FALSE]

FilterIdle ==
    /\ all_names = << >>
    /\ f_args = NoToggles
    /\ f_i = 0
    /\ keep = << >>
    /\ f_pc = "idle"

\* ---------------------------------------------- parse_index_for_filenames
ParseIdle ==
    /\ hrefs = << >>
    /\ names = << >>
    /\ uniq = << >>
    /\ p_i = 0
    /\ p_pc = "idle"

\* -------------------------------------------------------------- remote_head
\* A Content-Length header: absent, or the characters of its value.
HeaderAbsent == [present |-> FALSE, value |-> << >>]

Header(v) == [present |-> TRUE, value |-> v]

\* The activation of remote_head and of the caller's next lines: the
\* response to the HEAD request (status 0: an exception and no response),
\* the destination file the caller looks at, whether remote_head raised,
\* the value it returned, and where the caller went after it.
IdleRH == [pc |-> "idle", caller |-> "download_with_resume",
           resp |-> [status |-> 0, cl |-> HeaderAbsent], f |-> Absent,
           raised |-> FALSE, value |-> None, after |-> "none"]

\* choose_files(files, mode) and the list it returns.
IdleCH == [pc |-> "idle", files |-> << >>, mode |-> "dtm", picked |-> << >>]

HeadIdle == rh = IdleRH /\ ch = IdleCH

SideIdle == OdeIdle /\ VerifyIdle /\ FilterIdle /\ ParseIdle /\ HeadIdle

\* ------------------------------------------------------------ the server
\* What session.get can come back with for a request whose Range header is
\* h; len is the length of the body sent.  status 0 stands for a
\* connection error or timeout (an exception and no response).  A server
\* may honour the range (206), ignore it and send the whole object (200),
\* answer without content (204), reject a range at or past the end (416)
\* or fail (503).
ServerResponses(h) ==
    {[status |-> 200, len |-> RemoteLen],
     [status |-> 204, len |-> 0],
     [status |-> 503, len |-> 0],
     [status |-> 0, len |-> 0]}
    \cup (IF h > 0 /\ h < RemoteLen
             THEN {[status |-> 206, len |-> RemoteLen - h]}
             ELSE {})
    \cup (IF h >= RemoteLen THEN {[status |-> 416, len |-> 0]} ELSE {})

DigitChars == <<"0", "1", "2", "3", "4", "5", "6", "7", "8", "9">>

\* str(n) for n >= 0, as the server writes a length into the header.
RECURSIVE Str(_)
Str(n) ==
    IF n < 10 THEN <<DigitChars[n + 1]>>
    ELSE Str(n \div 10) \o <<DigitChars[(n % 10) + 1]>>

IsDigit(c) == \E d \in 0..9 : DigitChars[d + 1] = c

DigitValue(c) == CHOOSE d \in 0..9 : DigitChars[d + 1] = c

\* int(cl) succeeds on a non-empty string of digits (the header values of
\* the model carry no sign and no blanks) and raises ValueError otherwise.
IsNumeric(v) == v # << >> /\ \A i \in 1..Len(v) : IsDigit(v[i])

RECURSIVE IntOf(_)
IntOf(v) ==
    IF v = << >> THEN 0
    ELSE 10 * IntOf(SubSeq(v, 1, Len(v) - 1)) + DigitValue(v[Len(v)])

\* The status of the response to session.head (0: an exception, 399 and
\* 400: the two sides of the test of line 83).
HeadStatuses == {0, 200, 399, 400, 503}

\* The Content-Length header of the response: absent, empty, not a number,
\* or the length of the object.
ContentLengths ==
    {HeaderAbsent, Header(<< >>), Header(<<"1", "k">>), Header(Str(RemoteLen))}

HeadResponses == [status : HeadStatuses, cl : ContentLengths]

remote_head_uncaught(r) ==
    IF r.status = 0 \/ (r.status < 400 /\ r.cl.present /\ ~IsNumeric(r.cl.value))
        THEN [raised |-> TRUE, value |-> None]
    ELSE IF r.status >= 400 \/ ~r.cl.present THEN [raised |-> FALSE, value |-> None]
    ELSE [raised |-> FALSE, value |-> IntOf(r.cl.value)]

\* remote_head, lines 77-88: None for an exception of session.head or of
\* int (lines 87-88), for a status >= 400 (lines 83-84) and for a missing
\* header (line 86), else int(cl).
remote_head(r) ==
    IF r.status = 0 THEN [raised |-> FALSE, value |-> None]
    ELSE IF r.status >= 400 THEN [raised |-> FALSE, value |-> None]
    ELSE IF ~r.cl.present THEN [raised |-> FALSE, value |-> None]
    ELSE IF IsNumeric(r.cl.value)
        THEN [raised |-> FALSE, value |-> IntOf(r.cl.value)]
    ELSE [raised |-> FALSE, value |-> None]

\* What remote_head can return to download_with_resume: the
\* Content-Length, or None.
HeadResults == {remote_head(r).value : r \in HeadResponses}

\* requests.Response.raise_for_status
RaisesForStatus(s) == s >= 400 /\ s < 600

\* ------------------------------------------------- download_with_resume
\* One activation of download_with_resume.  remote_size, local_size,
\* headers, mode and attempt are the function's locals; status and body
\* are the response r (body: bytes still to come); gets, opens, sleeps,
\* entry_len and full record what the activation did, clean that the
\* stream of the current attempt ended without an exception, prev and
\* prev_known how the call before it ended and whether it knew the remote
\* size, starts how often the job slot's call was started.
Fresh(n) == [pc |-> "idle", name |-> n, remote_size |-> None,
             local_size |-> 0, headers |-> NoRange, mode |-> "wb",
             attempt |-> 0, status |-> 0, body |-> 0,
             gets |-> 0, opens |-> 0, sleeps |-> << >>,
             entry_len |-> 0, full |-> FALSE, clean |-> FALSE,
             prev |-> "none", prev_known |-> FALSE, starts |-> 0]

\* headers = {}; if local_size > 0: headers["Range"] = "bytes={local_size}-"
FirstRange(ls) == IF ls > 0 THEN ls ELSE NoRange

\* headers["Range"] = "bytes={local_size}-" if local_size > 0 else ""
RetryRange(ls) == IF ls > 0 THEN ls ELSE EmptyRange

ModeAlwaysWb(ls) == "wb"

\* mode = "ab" if local_size > 0 else "wb"
ModeFor(ls) == IF ls > 0 THEN "ab" ELSE "wb"

SleepUncapped(attempt) == Pow2(attempt)

\* sleep_s = min(2 ** attempt, 30)
SleepFor(attempt) == Min(Pow2(attempt), BackoffCap)

\* if attempt == max_retries: raise
LastAttempt(attempt) == attempt = max_retries

AlreadyCompleteStrict(rs, ls) == rs # None /\ ls > rs

\* if remote_size is not None and local_size == remote_size: return
AlreadyComplete(rs, ls) == rs # None /\ ls = rs

\* if r.status_code not in (200, 206): r.raise_for_status()
StatusRaises(s) == s \notin {200, 206} /\ RaisesForStatus(s)

\* The except clause: re-raise on the last attempt, else sleep.
OnException(d) ==
    IF LastAttempt(d.attempt)
        THEN [d EXCEPT !.pc = "raised", !.body = 0]
        ELSE [d EXCEPT !.pc = "sleep", !.body = 0,
                       !.sleeps = Append(@, SleepFor(d.attempt))]

\* open(out_path, mode): "wb" creates or truncates, "ab" creates or keeps.
OpenFile(f, mode) ==
    IF mode = "wb" THEN [exists |-> TRUE, size |-> 0]
                   ELSE [exists |-> TRUE, size |-> f.size]

\* f.write of n bytes in all: at the end of the file in append mode, from
\* offset 0 of the handle in "wb" mode.
WriteFile(f, mode, n) ==
    IF mode = "ab" THEN [f EXCEPT !.size = @ + n]
                   ELSE [f EXCEPT !.size = Max(@, n)]

\* Bytes the disk still takes from this handle.
Room(f, mode) == IF mode = "ab" THEN DiskCap - f.size ELSE DiskCap

\* Lines 104-117: the size probe, the local size, the already-complete
\* return and the first request's headers.
EnterWith(d, f, rs) ==
    LET ls == StatSize(f) IN
    IF AlreadyComplete(rs, ls)
        THEN [d EXCEPT !.pc = "returned", !.remote_size = rs,
                       !.local_size = ls, !.entry_len = ls]
        ELSE [d EXCEPT !.pc = "get", !.remote_size = rs,
                       !.local_size = ls, !.entry_len = ls,
                       !.headers = FirstRange(ls), !.mode = ModeFor(ls),
                       !.attempt = 1]

EnterResults(d, f) == {EnterWith(d, f, rs) : rs \in HeadResults}

\* Lines 121-129: the GET, the status check and the open of the
\* destination.
GetOpenResults(d, f) ==
    {LET e == [d EXCEPT !.gets = @ + 1, !.status = r.status] IN
     IF r.status = 0 \/ StatusRaises(r.status)
         THEN [d |-> OnException(e), f |-> f]
         ELSE [d |-> [e EXCEPT !.pc = "stream", !.body = r.len,
                               !.opens = @ + 1],
               f |-> OpenFile(f, e.mode)]
     : r \in ServerResponses(d.headers)}

\* Lines 130-144: the chunks of the response are written; the stream ends
\* (after all of the body or, the connection closing early, after n bytes
\* of it) or raises.  A normal end is followed by the size post-check,
\* which only prints, and the return.
StreamResultsRetryOnMismatch(d, f) ==
    {LET g == WriteFile(f, d.mode, x[1])
         e == [d EXCEPT !.clean = x[2]] IN
     [d |-> IF x[2] /\ (d.remote_size = None \/ g.size = d.remote_size)
                THEN [e EXCEPT !.pc = "returned", !.body = 0,
                               !.full = (x[1] = d.body)]
                ELSE OnException(e),
      f |-> g]
     : x \in (0..Min(d.body, Room(f, d.mode))) \X BOOLEAN}

StreamResults(d, f) ==
    {[d |-> IF x[2]
                THEN [d EXCEPT !.pc = "returned", !.body = 0,
                               !.full = (x[1] = d.body), !.clean = TRUE]
                ELSE OnException(d),
      f |-> WriteFile(f, d.mode, x[1])]
     : x \in (0..Min(d.body, Room(f, d.mode))) \X BOOLEAN}

RederiveKeepsOffset(d, f) ==
    [d EXCEPT !.pc = "get", !.attempt = @ + 1, !.clean = FALSE]

\* Lines 153-156 and the loop's next iteration: after the sleep the local
\* size, the Range header and the mode are derived again from the file.
RederiveResult(d, f) ==
    LET ls == StatSize(f) IN
    [d EXCEPT !.pc = "get", !.local_size = ls, !.headers = RetryRange(ls),
              !.mode = ModeFor(ls), !.attempt = @ + 1, !.clean = FALSE]

Enter(j) ==
    /\ dl[j].pc = "entry"
    /\ \E e \in EnterResults(dl[j], fs[dl[j].name]) :
         dl' = [dl EXCEPT ![j] = e]
    /\ UNCHANGED <<fs, calls, mainVars>>
    /\ UNCHANGED sideVars

GetOpen(j) ==
    /\ dl[j].pc = "get"
    /\ \E r \in GetOpenResults(dl[j], fs[dl[j].name]) :
         /\ dl' = [dl EXCEPT ![j] = r.d]
         /\ fs' = [fs EXCEPT ![dl[j].name] = r.f]
    /\ UNCHANGED <<calls, mainVars>>
    /\ UNCHANGED sideVars

Stream(j) ==
    /\ dl[j].pc = "stream"
    /\ \E r \in StreamResults(dl[j], fs[dl[j].name]) :
         /\ dl' = [dl EXCEPT ![j] = r.d]
         /\ fs' = [fs EXCEPT ![dl[j].name] = r.f]
    /\ UNCHANGED <<calls, mainVars>>
    /\ UNCHANGED sideVars

Rederive(j) ==
    /\ dl[j].pc = "sleep"
    /\ dl' = [dl EXCEPT ![j] = RederiveResult(@, fs[dl[j].name])]
    /\ UNCHANGED <<fs, calls, mainVars>>
    /\ UNCHANGED sideVars

\* -------------------------------------------- one transfer, called in a row
\* download_with_resume called MaxCalls times in succession for one
\* descriptor, on a destination in any state an earlier run can leave.
HarnessCall ==
    /\ main_pc = "harness"
    /\ dl[1].pc \in {"idle", "returned", "raised"}
    /\ calls < MaxCalls
    /\ dl' = [dl EXCEPT ![1] =
                [Fresh("a") EXCEPT
                    !.pc = "entry",
                    !.prev = IF dl[1].pc = "idle" THEN "none" ELSE dl[1].pc,
                    !.prev_known = dl[1].remote_size # None,
                    !.starts = dl[1].starts + 1]]
    /\ calls' = calls + 1
    /\ UNCHANGED <<fs, mainVars>>
    /\ UNCHANGED sideVars

InitDL ==
    /\ \E f \in Files :
         fs = [n \in Names |-> IF n = "a" THEN f ELSE Absent]
    /\ dl = [j \in JobIds |-> Fresh("a")]
    /\ calls = 0
    /\ selected = <<"a">>
    /\ max_workers = 1
    /\ dry_run = FALSE
    /\ verify = FALSE
    /\ run = 1
    /\ interrupted = FALSE
    /\ main_pc = "harness"
    /\ existing = << >>
    /\ remotes = << >>
    /\ queue = << >>
    /\ submitted = 0
    /\ yielded = {}
    /\ done = 0
    /\ exc = FALSE
    /\ SideIdle

NextDL ==
    \/ HarnessCall
    \/ \E j \in JobIds : Enter(j) \/ GetOpen(j) \/ Stream(j) \/ Rederive(j)

SpecDL == InitDL /\ [][NextDL]_vars

\* ------------------------------------ download_with_resume, start to end
Finished(d) == d.pc \in {"returned", "raised"}

\* One iteration of the retry loop (lines 119-156) from a state about to
\* send its GET: the request and, if the file was opened, the stream.
AttemptResults(s) ==
    LET G == GetOpenResults(s.d, s.f) IN
    {g \in G : g.d.pc # "stream"}
    \cup UNION {StreamResults(g.d, g.f) : g \in {x \in G : x.d.pc = "stream"}}

\* The states that re-enter the loop after a failed attempt.
Retries(R) ==
    {[d |-> RederiveResult(r.d, r.f), f |-> r.f]
     : r \in {x \in R : x.d.pc = "sleep"}}

\* The ends (returned or raised, with the file as left) of the retry loop
\* started in any of the states S.
RECURSIVE RunAttempts(_)
RunAttempts(S) ==
    LET R == UNION {AttemptResults(s) : s \in S}
        T == {r \in R : Finished(r.d)}
        C == Retries(R)
    IN IF C = {} THEN T ELSE T \cup RunAttempts(C)

\* Every state the loop started in S passes through, ends included.
RECURSIVE MidStates(_)
MidStates(S) ==
    LET G == UNION {GetOpenResults(s.d, s.f) : s \in S}
        R == UNION {AttemptResults(s) : s \in S}
        C == Retries(R)
    IN S \cup G \cup R \cup (IF C = {} THEN {} ELSE MidStates(C))

\* The ends of one call download_with_resume(s, url, out_path) on file f.
CallResults(n, f) ==
    LET E == EnterResults(Fresh(n), f) IN
    {[d |-> e, f |-> f] : e \in {x \in E : x.pc = "returned"}}
    \cup RunAttempts({[d |-> e, f |-> f] : e \in {x \in E : x.pc = "get"}})

\* The states of the file at which a call on f can be cut short.
CallMidFiles(n, f) ==
    LET E == EnterResults(Fresh(n), f) IN
    {f} \cup {s.f : s \in MidStates({[d |-> e, f |-> f]
                                      : e \in {x \in E : x.pc = "get"}})}

\* How a call on a file in state f can end, as threaded_job's caller sees
\* it: returned or raised, and the file it leaves.  (The name plays no part
\* in the call.)
CallEnds ==
    [f \in Files |-> {[pc |-> x.d.pc, f |-> x.f] : x \in CallResults("a", f)}]

CallCuts == [f \in Files |-> CallMidFiles("a", f)]

\* ------------------------------------------------------------------- main
InSeq(x, s) == \E i \in 1..Len(s) : s[i] = x

ExistingComplete(sel, files) ==
    LET Whole(n) == files[n].exists /\ files[n].size = RemoteLen
    IN SelectSeq(sel, Whole)

\* Lines 185-190: the descriptors whose out_path.exists().
Existing(sel, files) ==
    LET Exists(n) == files[n].exists IN SelectSeq(sel, Exists)

\* remotes = [rf for rf in remotes if rf not in existing]
NotExisting(sel, ex) ==
    LET Left(n) == ~InSeq(n, ex) IN SelectSeq(sel, Left)

Jobs == 1..Len(remotes)

InFlight == {j \in Jobs : dl[j].pc = "entry"}

Ended == {j \in Jobs : Finished(dl[j])}

\* Lines 174-176: with --verify main calls verify_files, which probes the
\* size of each name, looks at out_path.exists() and st_size and prints
\* (the classes are those of VerifyClass), and returns.
MainVerify ==
    /\ main_pc = "start"
    /\ verify
    /\ main_pc' = "verified"
    /\ UNCHANGED <<fs, dl, calls, selected, max_workers, dry_run, verify, run,
                   interrupted, existing, remotes, queue, submitted, yielded,
                   done, exc>>
    /\ UNCHANGED sideVars

PrefilterIgnoresVerify == main_pc = "start"

\* if args.verify: ...; return -- the rest of main runs without --verify
\* only.
PrefilterReached == main_pc = "start" /\ ~verify

\* Lines 171-192: the descriptors, the pre-filter and its report.
MainPrefilter ==
    /\ PrefilterReached
    /\ existing' = Existing(selected, fs)
    /\ remotes' = NotExisting(selected, existing')
    /\ main_pc' = "filtered"
    /\ UNCHANGED <<fs, dl, calls, selected, max_workers, dry_run, verify, run,
                   interrupted,
                   queue, submitted, yielded, done, exc>>
    /\ UNCHANGED sideVars

\* Lines 194-197: --dry-run prints the URLs and returns.
MainDryRun ==
    /\ main_pc = "filtered"
    /\ dry_run
    /\ main_pc' = "returned"
    /\ UNCHANGED <<fs, dl, calls, selected, max_workers, dry_run, verify, run,
                   interrupted,
                   existing, remotes, queue, submitted, yielded, done, exc>>
    /\ UNCHANGED sideVars

\* Line 207: the executor is created.
MainEnterPool ==
    /\ main_pc = "filtered"
    /\ ~dry_run
    /\ main_pc' = "submit"
    /\ UNCHANGED <<fs, dl, calls, selected, max_workers, dry_run, verify, run,
                   interrupted,
                   existing, remotes, queue, submitted, yielded, done, exc>>
    /\ UNCHANGED sideVars

\* Line 208: ex.submit(threaded_job, rf) for the next rf of remotes; after
\* the last, the as_completed loop is entered.
Submit ==
    /\ main_pc = "submit"
    /\ IF submitted < Len(remotes)
          THEN /\ queue' = Append(queue, submitted + 1)
               /\ submitted' = submitted + 1
               /\ main_pc' = main_pc
          ELSE /\ main_pc' = "as_completed"
               /\ UNCHANGED <<queue, submitted>>
    /\ UNCHANGED <<fs, dl, calls, selected, max_workers, dry_run, verify, run,
                   interrupted,
                   existing, remotes, yielded, done, exc>>
    /\ UNCHANGED sideVars

WorkerFreeAlways == TRUE

\* ThreadPoolExecutor(max_workers=args.max_workers): a work item is taken
\* up only by one of at most max_workers threads, each running one item
\* at a time.
WorkerFree == Cardinality(InFlight) < max_workers

\* A pool thread takes the oldest queued work item and calls threaded_job
\* (lines 201-205), which calls download_with_resume.
JobStart(j) ==
    /\ main_pc \in {"submit", "as_completed", "shutdown"}
    /\ queue # << >>
    /\ j = Head(queue)
    /\ WorkerFree
    /\ queue' = Tail(queue)
    /\ dl' = [dl EXCEPT ![j] = [Fresh(remotes[j]) EXCEPT
                                  !.pc = "entry", !.starts = dl[j].starts + 1]]
    /\ UNCHANGED <<fs, calls, selected, max_workers, dry_run, verify, run, interrupted,
                   main_pc,
                   existing, remotes, submitted, yielded, done, exc>>
    /\ UNCHANGED sideVars

\* Another call on the same destination is running.
Raced(j) == \E i \in InFlight : i # j /\ dl[i].name = dl[j].name

\* threaded_job ends: download_with_resume returned (the future holds
\* rf.name) or raised (the future holds the exception).  Two calls writing
\* one path at the same time leave any length behind.
JobEnd(j) ==
    /\ main_pc \in {"submit", "as_completed", "shutdown"}
    /\ j \in InFlight
    /\ \E r \in IF Raced(j)
                   THEN {[pc |-> p, f |-> FileOfLen(k)]
                         : p \in {"returned", "raised"}, k \in 0..DiskCap}
                   ELSE CallEnds[fs[dl[j].name]] :
         /\ dl' = [dl EXCEPT ![j].pc = r.pc]
         /\ fs' = [fs EXCEPT ![dl[j].name] = r.f]
    /\ UNCHANGED <<calls, selected, max_workers, dry_run, verify, run, interrupted,
                   main_pc,
                   existing, remotes, queue, submitted, yielded, done, exc>>
    /\ UNCHANGED sideVars

\* Lines 210-213: as_completed hands over a finished future; fut.result()
\* returns the name, or raises what the job raised, which leaves the loop.
AsCompleted(j) ==
    /\ main_pc = "as_completed"
    /\ j \in Ended \ yielded
    /\ yielded' = yielded \cup {j}
    /\ IF dl[j].pc = "raised"
          THEN /\ exc' = TRUE
               /\ main_pc' = "shutdown"
               /\ done' = done
          ELSE /\ done' = done + 1
               /\ UNCHANGED <<exc, main_pc>>
    /\ UNCHANGED <<fs, dl, calls, selected, max_workers, dry_run, verify, run,
                   interrupted,
                   existing, remotes, queue, submitted>>
    /\ UNCHANGED sideVars

\* as_completed is exhausted: every future has been handed over.
LoopEnd ==
    /\ main_pc = "as_completed"
    /\ yielded = Jobs
    /\ main_pc' = "shutdown"
    /\ UNCHANGED <<fs, dl, calls, selected, max_workers, dry_run, verify, run,
                   interrupted,
                   existing, remotes, queue, submitted, yielded, done, exc>>
    /\ UNCHANGED sideVars

ShutdownNoWait == TRUE

\* ThreadPoolExecutor.__exit__ is shutdown(wait=True): it returns when the
\* threads have run every queued work item.
ShutdownWaits == queue = << >> /\ InFlight = {}

\* Line 207's with block is left; then either line 215 prints "Done." or
\* the exception leaves main uncaught (traceback, exit status 1).
Shutdown ==
    /\ main_pc = "shutdown"
    /\ ShutdownWaits
    /\ main_pc' = IF exc THEN "uncaught" ELSE "done"
    /\ UNCHANGED <<fs, dl, calls, selected, max_workers, dry_run, verify, run,
                   interrupted,
                   existing, remotes, queue, submitted, yielded, done, exc>>
    /\ UNCHANGED sideVars

Running == main_pc \in {"start", "filtered", "submit", "as_completed",
                        "shutdown"}

Exited ==
    main_pc \in {"done", "returned", "verified", "uncaught", "killed"}

\* sys.exit status of the process.
ExitStatus == IF main_pc \in {"uncaught", "killed"} THEN 1 ELSE 0

\* The process is interrupted (killed, or the machine stops): the calls in
\* flight are cut short wherever they are, and nothing of the process is
\* left but the files.
Interrupt ==
    /\ Running
    /\ main_pc' = "killed"
    /\ \E g \in [Names -> Files] :
         /\ \A n \in Names :
              IF \E j \in InFlight : dl[j].name = n
                  THEN IF \E i, j \in InFlight :
                              i # j /\ dl[i].name = n /\ dl[j].name = n
                          THEN g[n].exists
                          ELSE g[n] \in CallCuts[fs[n]]
                  ELSE g[n] = fs[n]
         /\ fs' = g
    /\ dl' = [j \in JobIds |-> Fresh("a")]
    /\ existing' = << >>
    /\ remotes' = << >>
    /\ queue' = << >>
    /\ submitted' = 0
    /\ yielded' = {}
    /\ done' = 0
    /\ exc' = FALSE
    /\ UNCHANGED <<calls, selected, max_workers, dry_run, verify, run, interrupted>>
    /\ UNCHANGED sideVars

\* The script is invoked again on the same output directory, with the same
\* arguments but for --verify.
NextRun ==
    /\ Exited
    /\ run < MaxRuns
    /\ run' = run + 1
    /\ interrupted' = (main_pc = "killed")
    /\ main_pc' = "start"
    /\ dl' = [j \in JobIds |-> Fresh("a")]
    /\ existing' = << >>
    /\ remotes' = << >>
    /\ queue' = << >>
    /\ submitted' = 0
    /\ yielded' = {}
    /\ done' = 0
    /\ exc' = FALSE
    /\ verify' \in BOOLEAN
    /\ UNCHANGED <<fs, calls, selected, max_workers, dry_run>>
    /\ UNCHANGED sideVars

SeqsUpTo(S, n) == UNION {[1..k -> S] : k \in 1..n}

InitMain ==
    /\ fs = [n \in Names |-> Absent]
    /\ dl = [j \in JobIds |-> Fresh("a")]
    /\ calls = 0
    /\ selected \in SeqsUpTo(Names, MaxSel)
    /\ max_workers \in 1..MaxW
    /\ dry_run \in BOOLEAN
    /\ verify \in BOOLEAN
    /\ run = 1
    /\ interrupted = FALSE
    /\ main_pc = "start"
    /\ existing = << >>
    /\ remotes = << >>
    /\ queue = << >>
    /\ submitted = 0
    /\ yielded = {}
    /\ done = 0
    /\ exc = FALSE
    /\ SideIdle

NextMain ==
    \/ MainVerify
    \/ MainPrefilter
    \/ MainDryRun
    \/ MainEnterPool
    \/ Submit
    \/ \E j \in JobIds : JobStart(j) \/ JobEnd(j) \/ AsCompleted(j)
    \/ LoopEnd
    \/ Shutdown
    \/ Interrupt
    \/ NextRun

SpecMain == InitMain /\ [][NextMain]_vars

\* The calling thread keeps running: every request has a timeout and every
\* sleep ends.
FairSpecDL == SpecDL /\ WF_vars(NextDL)

\* The orchestrator and the transfer engine at rest, for the specifications
\* of the other parts.
CoreIdle ==
    /\ fs = [n \in Names |-> Absent]
    /\ dl = [j \in JobIds |-> Fresh("a")]
    /\ calls = 0
    /\ selected = <<"a">>
    /\ max_workers = 1
    /\ dry_run = FALSE
    /\ verify = FALSE
    /\ run = 1
    /\ interrupted = FALSE
    /\ main_pc = "none"
    /\ existing = << >>
    /\ remotes = << >>
    /\ queue = << >>
    /\ submitted = 0
    /\ yielded = {}
    /\ done = 0
    /\ exc = FALSE

coreVars == <<fs, dl, calls, mainVars>>

odeMainVars == <<o_pc, o_args, tokens, prod_json, product_files, filtered,
                 o_pos, o_dir, o_hist>>

\* What the actions of one part leave alone.
notOde == <<coreVars, verifyVars, filterVars, parseVars, headVars>>

notVerify == <<coreVars, odeVars, filterVars, parseVars, headVars>>

notFilter == <<coreVars, odeVars, verifyVars, parseVars, headVars>>

notParse == <<coreVars, odeVars, verifyVars, filterVars, headVars>>

notHead == <<coreVars, odeVars, verifyVars, filterVars, parseVars, ch>>

notChoose == <<coreVars, odeVars, verifyVars, filterVars, parseVars, rh>>

\* ------------------------------------------------------- stream_download
\* download_lroc_nac_stereo_dtms_2-5mpp.py, lines 35-53.
\* Lines 37-42: the GET (no Range header), raise_for_status, and the open
\* of the ".part" sibling in "wb" mode.
SDGetOpenResults(a, o) ==
    {LET e == [a EXCEPT !.status = r.status] IN
     IF r.status = 0 \/ RaisesForStatus(r.status)
         THEN [a |-> [e EXCEPT !.pc = "raised"], o |-> o]
         ELSE [a |-> [e EXCEPT !.pc = "stream", !.body = r.len],
               o |-> [o EXCEPT !.part = OpenFile(@, "wb")]]
     : r \in ServerResponses(NoRange)}

\* Lines 43-51: the chunks are written to the ".part" file; iter_content
\* ends (after all of the body or, the connection closing early, after n
\* bytes of it) or raises.  Content-Length (total) is used for the
\* progress display only.
SDStreamResults(a, o) ==
    {[a |-> IF x[2]
                THEN [a EXCEPT !.pc = "replace", !.body = 0,
                               !.full = (x[1] = a.body)]
                ELSE [a EXCEPT !.pc = "raised", !.body = 0],
      o |-> [o EXCEPT !.part = WriteFile(@, "wb", x[1])]]
     : x \in (0..Min(a.body, DiskCap)) \X BOOLEAN}

\* Line 52: tmp_path.replace(out_path).
SDReplaceResult(a, o) ==
    [a |-> [a EXCEPT !.pc = "returned", !.renamed = TRUE],
     o |-> [final |-> o.part, part |-> Absent]]

SDGetOpen ==
    /\ sd.pc = "get"
    /\ \E r \in SDGetOpenResults(sd, out[sd.path]) :
         /\ sd' = r.a
         /\ out' = [out EXCEPT ![sd.path] = r.o]
    /\ UNCHANGED <<odeMainVars, notOde>>

SDStream ==
    /\ sd.pc = "stream"
    /\ \E r \in SDStreamResults(sd, out[sd.path]) :
         /\ sd' = r.a
         /\ out' = [out EXCEPT ![sd.path] = r.o]
    /\ UNCHANGED <<odeMainVars, notOde>>

SDReplace ==
    /\ sd.pc = "replace"
    /\ LET r == SDReplaceResult(sd, out[sd.path]) IN
         /\ sd' = r.a
         /\ out' = [out EXCEPT ![sd.path] = r.o]
    /\ UNCHANGED <<odeMainVars, notOde>>

\* stream_download(url, out_path) called MaxCalls times in succession for
\* one destination, whatever an earlier run left at it and at its sibling.
SDCall ==
    /\ sd.pc \in {"idle", "returned", "raised"}
    /\ sd.calls < MaxCalls
    /\ sd' = [IdleSD EXCEPT !.pc = "get", !.calls = sd.calls + 1,
                            !.before = out[sd.path].final]
    /\ UNCHANGED <<out, odeMainVars, notOde>>

InitSD ==
    /\ HeadIdle
    /\ CoreIdle
    /\ VerifyIdle
    /\ FilterIdle
    /\ ParseIdle
    /\ MainIdle
    /\ sd = IdleSD
    /\ \E f \in Files, g \in Files :
         out = [p \in OutPaths |-> IF p = IdleSD.path
                                      THEN [final |-> f, part |-> g]
                                      ELSE NoFile]

NextSD == SDCall \/ SDGetOpen \/ SDStream \/ SDReplace

SpecSD == InitSD /\ [][NextSD]_vars

\* ------------------------------------- the catalog-query script: its main
\* download_lroc_nac_stereo_dtms_2-5mpp.py.
\* str.upper on the words that occur.
UpperWord(w) ==
    CASE w = "lro" -> "LRO"
      [] w = "lroc" -> "LROC"
      [] w = "sdndtm" -> "SDNDTM"
      [] w = "_shade" -> "_SHADE"
      [] OTHER -> w

\* IHID/IID/PT sets an iipt response can hold.
IiptSet(ihid, iid, pt) == [IHID |-> ihid, IID |-> iid, PT |-> pt]

\* What the iipt request can come back with: no usable response (a
\* connection error, a status raise_for_status raises for, a body that is
\* not JSON), or a document holding some sets.
IiptResponses ==
    {[ok |-> FALSE, sets |-> {}]}
    \cup {[ok |-> TRUE, sets |-> S] :
            S \in {{},
                   {IiptSet("LRO", "LROC", "EDRNAC")},
                   {IiptSet("LRO", "LOLA", "SDNDTM"),
                    IiptSet("LRO", "LROC", "EDRNAC")},
                   {IiptSet("LRO", "LROC", "EDRNAC"),
                    IiptSet("LRO", "LROC", "SDNDTM")},
                   {IiptSet("lro", "lroc", "sdndtm")}}}

\* Lines 83-86: the LRO/LROC sets, then one of them whose PT is SDNDTM.
HasSdndtm(sets) ==
    \E s \in sets : /\ UpperWord(s.IHID) = "LRO"
                    /\ UpperWord(s.IID) = "LROC"
                    /\ UpperWord(s.PT) = "SDNDTM"

iipt_find_default_tokens(resp) == "LRO/LROC/SDNDTM"

\* iipt_find_lroc_sndtm (lines 55-90) on a response: the tokens, or
\* "raised" for the exception of http_get(...).json() (line 66) or the
\* RuntimeError of lines 89-90.
iipt_find_lroc_sndtm(resp) ==
    IF resp.ok /\ HasSdndtm(resp.sets) THEN "LRO/LROC/SDNDTM" ELSE "raised"

\* --bbox MINLAT MAXLAT WESTLON EASTLON
Boxes ==
    {[minlat |-> 1, maxlat |-> 1, westlon |-> 1, eastlon |-> 1],
     [minlat |-> 0, maxlat |-> 2, westlon |-> 0, eastlon |-> 2]}

Modes == {"dtm", "all_tif", "all"}

\* The centre a product of the response reports; None for a product
\* without the key.
Centres ==
    {[lat |-> 1, lon |-> 1], [lat |-> 0, lon |-> 1], [lat |-> 1, lon |-> 2],
     [lat |-> None, lon |-> None]}

Product(id, c) ==
    [pdsid |-> id, Center_latitude |-> c.lat, Center_longitude |-> c.lon]

\* The product lists a query response can hold (query_products_bbox
\* leaves the choice of products to the server).
ProdLists ==
    {<< >>}
    \cup {<<Product("P1", c)>> : c \in Centres}
    \cup {<<Product("P1", c), Product("P2", d)>> : c \in Centres, d \in Centres}

ReadmeTxt == FileName("", "txt")

\* The links of a product's files page.
Pages == {<<DtmTif>>, <<DtmTif, ShadeTif>>, <<ReadmeTxt>>}

\* What http_get(files_url) can come back with: an exception, or a page.
FetchResults ==
    {[ok |-> FALSE, links |-> << >>]} \cup {[ok |-> TRUE, links |-> pg] : pg \in Pages}

\* Line 148: the extensions of "likely data files".
DataExts == {"tif", "tiff", "xml", "lbl", "jpg", "png"}

IsDataFile(fn) == LowerWord(fn.ext) \in DataExts

fetch_keeps_links(r) == SelectSeq(IF r.ok THEN r.links ELSE <<DtmTif>>, IsDataFile)

\* fetch_product_files_from_url (lines 119-150): [] when the fetch fails
\* (lines 125-130), else the links that name data files.
fetch_product_files_from_url(r) ==
    IF r.ok THEN SelectSeq(r.links, IsDataFile) ELSE << >>

\* choose_files, lines 185-217.
IsTif(fn) == LowerWord(fn.ext) = "tif"

DerivedTags == {"_SHADE", "_SLOPE", "_CLRSHADE", "_LEGEND"}

IsDerivedAsWritten(fn) == fn.tag \in DerivedTags

\* Lines 203-204: one of the tags is in the upper-cased name.
IsDerived(fn) == UpperWord(fn.tag) \in DerivedTags

IsLabel(fn) == LowerWord(fn.ext) \in {"lbl", "xml"}

IsMain(fn) == ~IsDerived(fn)

\* Line 216: a dict keyed by filename keeps one entry per name, at the
\* place of the first and with the value of the last.
SameFilename(a, b) == a.stem = b.stem /\ a.tag = b.tag /\ a.ext = b.ext

RECURSIVE UniqueByFilename(_)
UniqueByFilename(s) ==
    IF s = << >> THEN << >>
    ELSE LET r == UniqueByFilename(SubSeq(s, 1, Len(s) - 1))
             x == s[Len(s)]
         IN IF \E i \in 1..Len(r) : SameFilename(r[i], x)
                THEN [i \in 1..Len(r) |->
                         IF SameFilename(r[i], x) THEN x ELSE r[i]]
                ELSE Append(r, x)

choose_files(files, mode) ==
    IF mode = "all" THEN files
    ELSE IF mode = "all_tif" THEN SelectSeq(files, IsTif)
    ELSE LET tif == SelectSeq(files, IsTif)
             main == SelectSeq(tif, IsMain)
             labels == SelectSeq(files, IsLabel)
         IN UniqueByFilename((IF main = << >> /\ tif # << >> THEN tif ELSE main)
                             \o labels)

\* Lines 264-265: p.get('Center_latitude', 0), p.get('Center_longitude', 0)
CenterLat(p) == IF p.Center_latitude = None THEN 0 ELSE p.Center_latitude

CenterLon(p) == IF p.Center_longitude = None THEN 0 ELSE p.Center_longitude

InBoxLatOnly(b, lat, lon) == b.minlat <= lat /\ lat <= b.maxlat

\* Line 266: minlat <= lat <= maxlat and westlon <= lon <= eastlon
InBox(b, lat, lon) ==
    /\ b.minlat <= lat /\ lat <= b.maxlat
    /\ b.westlon <= lon /\ lon <= b.eastlon

\* Lines 261-267: the test a (product, files) pair passes to be appended
\* to filtered.
Passes(pf) ==
    /\ pf.files # << >>
    /\ InBox(o_args.bbox, CenterLat(pf.p), CenterLon(pf.p))

\* Line 272: the dry run lists filtered[:10].
DryRunMax == 10

\* stream_download(url, out_path), start to end, on a destination and its
\* sibling in state o: returned or raised, and the files it leaves.
SDCallResults(o) ==
    LET G == SDGetOpenResults([IdleSD EXCEPT !.pc = "get"], o)
        S == UNION {SDStreamResults(g.a, g.o) : g \in {x \in G : x.a.pc = "stream"}}
    IN {g \in G : g.a.pc = "raised"}
       \cup {s \in S : s.a.pc = "raised"}
       \cup {SDReplaceResult(s.a, s.o) : s \in {x \in S : x.a.pc = "replace"}}

SDEnds ==
    [o \in [final : Files, part : Files] |->
        {[pc |-> x.a.pc, o |-> x.o] : x \in SDCallResults(o)}]

\* Line 238: tokens = iipt_find_lroc_sndtm(); an exception leaves main.
OdeDiscover ==
    /\ o_pc = "discover"
    /\ \E resp \in IiptResponses :
         LET t == iipt_find_lroc_sndtm(resp) IN
         /\ o_hist' = [o_hist EXCEPT !.iipt = Append(@, resp)]
         /\ IF t = "raised"
               THEN o_pc' = "uncaught" /\ UNCHANGED tokens
               ELSE o_pc' = "query" /\ tokens' = t
    /\ UNCHANGED <<out, sd, o_args, prod_json, product_files, filtered,
                   o_pos, o_dir, notOde>>

\* Lines 243-248: prod_json = query_products_bbox(...); http_get(url).json()
\* (line 117) raises or gives the document.
OdeQuery ==
    /\ o_pc = "query"
    /\ o_hist' = [o_hist EXCEPT !.queries = @ + 1]
    /\ \/ o_pc' = "uncaught" /\ UNCHANGED prod_json
       \/ \E ps \in ProdLists : prod_json' = ps /\ o_pc' = "save"
    /\ UNCHANGED <<out, sd, o_args, tokens, product_files, filtered,
                   o_pos, o_dir, notOde>>

\* Lines 251-254: out_dir.mkdir(...), meta_path.write_text(...).
OdeSave ==
    /\ o_pc = "save"
    /\ o_dir' = [exists |-> TRUE, meta |-> TRUE]
    /\ o_pc' = "extract"
    /\ UNCHANGED <<out, sd, o_args, tokens, prod_json, product_files,
                   filtered, o_pos, o_hist, notOde>>

\* Lines 174-181 of extract_product_file_urls (called at line 257): the
\* next product and the files of its page.
OdeExtract ==
    /\ o_pc = "extract"
    /\ Len(product_files) < Len(prod_json)
    /\ \E r \in FetchResults :
         /\ product_files' =
                Append(product_files,
                       [p |-> prod_json[Len(product_files) + 1],
                        files |-> fetch_product_files_from_url(r)])
         /\ o_hist' = [o_hist EXCEPT !.fetches = Append(@, r.ok)]
    /\ UNCHANGED <<out, sd, o_pc, o_args, tokens, prod_json, filtered,
                   o_pos, o_dir, notOde>>

\* Lines 260-269, and the branch of line 271.
OdeFilter ==
    /\ o_pc = "extract"
    /\ Len(product_files) = Len(prod_json)
    /\ filtered' = SelectSeq(product_files, Passes)
    /\ o_pc' = IF o_args.dry_run THEN "list" ELSE "loop"
    /\ UNCHANGED <<out, sd, o_args, tokens, prod_json, product_files,
                   o_pos, o_dir, o_hist, notOde>>

\* Lines 272-280: the dry run prints the first products and returns.
OdeDryRun ==
    /\ o_pc = "list"
    /\ o_hist' = [o_hist EXCEPT
                    !.listed = SubSeq(filtered, 1, Min(DryRunMax, Len(filtered)))]
    /\ o_pc' = "done"
    /\ UNCHANGED <<out, sd, o_args, tokens, prod_json, product_files,
                   filtered, o_pos, o_dir, notOde>>

\* The files picked for the product the loop is at (line 287); none
\* before the first product.
Picked ==
    IF o_pos.i = 0 THEN << >>
    ELSE choose_files(filtered[o_pos.i].files, o_args.mode)

\* Lines 283-289: the loop passes to its next product, or ends.
OdeLoopNext ==
    /\ o_pc = "loop"
    /\ o_pos.i = 0 \/ o_pos.k > Len(Picked)
    /\ IF o_pos.i < Len(filtered)
          THEN /\ o_pos' = [i |-> o_pos.i + 1, k |-> 1]
               /\ o_hist' = [o_hist EXCEPT
                               !.visited = Append(@, filtered[o_pos.i + 1])]
               /\ UNCHANGED o_pc
          ELSE /\ o_pc' = "done"
               /\ UNCHANGED <<o_pos, o_hist>>
    /\ UNCHANGED <<out, sd, o_args, tokens, prod_json, product_files,
                   filtered, o_dir, notOde>>

\* Lines 290-298: one picked file; it is skipped if it exists with a size
\* above 0, else stream_download is called, whose exception leaves main.
OdeLoopFile ==
    /\ o_pc = "loop"
    /\ o_pos.i > 0
    /\ o_pos.k <= Len(Picked)
    /\ LET path == <<filtered[o_pos.i].p.pdsid, Picked[o_pos.k]>> IN
       IF out[path].final.exists /\ out[path].final.size > 0
          THEN /\ o_pos' = [o_pos EXCEPT !.k = @ + 1]
               /\ UNCHANGED <<out, o_pc, o_hist>>
          ELSE \E e \in SDEnds[out[path]] :
                 /\ out' = [out EXCEPT ![path] = e.o]
                 /\ o_hist' = [o_hist EXCEPT !.transfers = @ + 1]
                 /\ IF e.pc = "raised"
                       THEN o_pc' = "uncaught" /\ UNCHANGED o_pos
                       ELSE o_pos' = [o_pos EXCEPT !.k = @ + 1]
                            /\ UNCHANGED o_pc
    /\ UNCHANGED <<sd, o_args, tokens, prod_json, product_files, filtered,
                   o_dir, notOde>>

InitODE ==
    /\ HeadIdle
    /\ CoreIdle
    /\ VerifyIdle
    /\ FilterIdle
    /\ ParseIdle
    /\ out = [p \in OutPaths |-> NoFile]
    /\ sd = IdleSD
    /\ o_pc = "discover"
    /\ o_args \in [bbox : Boxes, mode : Modes, dry_run : BOOLEAN]
    /\ tokens = "none"
    /\ prod_json = << >>
    /\ product_files = << >>
    /\ filtered = << >>
    /\ o_pos = [i |-> 0, k |-> 0]
    /\ o_dir = NoDir
    /\ o_hist = NoHist

NextODE ==
    \/ OdeDiscover
    \/ OdeQuery
    \/ OdeSave
    \/ OdeExtract
    \/ OdeFilter
    \/ OdeDryRun
    \/ OdeLoopNext
    \/ OdeLoopFile

SpecODE == InitODE /\ [][NextODE]_vars

\* ----------------------------------------------------------- verify_files
\* name.lower().endswith('.xml')
IsXml(name) == EndsWith(Lower(name), <<"xml">>)

\* download_lola_20mpp.py, lines 57-73: the class of one name, given its
\* file and what remote_head returned.
VerifyClassLola(name, f, rs) ==
    IF ~f.exists THEN "Missing"
    ELSE IF IsXml(name)
        THEN IF f.size > XmlMinSize THEN "Complete" ELSE "Incomplete"
    ELSE IF rs # None /\ f.size = rs THEN "Complete"
    ELSE "Incomplete"

\* download_lroc_nac_pole_south_cm_avg.py, lines 64-73.
VerifyClassNac(name, f, rs) ==
    IF ~f.exists THEN "Missing"
    ELSE IF rs # None /\ f.size = rs THEN "Complete"
    ELSE "Incomplete"

VerifyClass(script, name, f, rs) ==
    IF script = "lola" THEN VerifyClassLola(name, f, rs)
                       ELSE VerifyClassNac(name, f, rs)

\* complete += 1, incomplete += 1 or missing += 1
Counted(c, class) ==
    CASE class = "Complete" -> [c EXCEPT !.complete = @ + 1]
      [] class = "Incomplete" -> [c EXCEPT !.incomplete = @ + 1]
      [] class = "Missing" -> [c EXCEPT !.missing = @ + 1]

\* One iteration of the loop over filenames: the size probe and the
\* classification of the next name.
VerifyFile ==
    /\ v_pc = "loop"
    /\ Len(v_log) < Len(filenames)
    /\ \E rs \in VHeadResults :
         LET name == filenames[Len(v_log) + 1]
             class == VerifyClass(v_script, name, v_disk[name], rs) IN
         /\ v_log' = Append(v_log, [class |-> class, remote |-> rs])
         /\ v_count' = Counted(v_count, class)
    /\ UNCHANGED <<v_script, filenames, v_disk, v_pc, notVerify>>

\* The loop is over: the counts are printed and verify_files returns.
VerifyReturn ==
    /\ v_pc = "loop"
    /\ Len(v_log) = Len(filenames)
    /\ v_pc' = "returned"
    /\ UNCHANGED <<v_script, filenames, v_disk, v_log, v_count, notVerify>>

InitVerify ==
    /\ HeadIdle
    /\ CoreIdle
    /\ OdeIdle
    /\ FilterIdle
    /\ ParseIdle
    /\ v_script \in {"lola", "nac"}
    /\ filenames \in SeqsUpTo(VNames, MaxVer)
    /\ v_disk \in [VNames -> VFiles]
    /\ \A n \in VNames : InSeq(n, filenames) \/ v_disk[n] = Absent
    /\ v_log = << >>
    /\ v_count = [complete |-> 0, incomplete |-> 0, missing |-> 0]
    /\ v_pc = "loop"

NextVerify == VerifyFile \/ VerifyReturn

SpecVerify == InitVerify /\ [][NextVerify]_vars

\* ----------------------------------------------------------- filter_files
\* download_lroc_nac_pole_south_cm_avg.py, lines 122-173.
\* e.lstrip("."): the leading dots of an allow-list entry are dropped.
RECURSIVE LStripDots(_)
LStripDots(e) ==
    IF Len(e) > 1 /\ Head(e) = "" THEN LStripDots(Tail(e)) ELSE e

\* include_ext = tuple(e.lower().lstrip(".") for e in include_ext)
NormalisedExt(exts) == {LStripDots(Lower(exts[i])) : i \in 1..Len(exts)}

\* ext = lower.rsplit(".", 1)[-1] if "." in lower else ""
LastExt(lower) == IF Len(lower) > 1 THEN <<lower[Len(lower)]>> ELSE <<"">>

FilterDecisionGenericFirst(fn, a) ==
    LET lower == Lower(fn) IN
    IF EndsWith(lower, <<"gif">>) \/ EndsWith(lower, <<"ico">>) THEN FALSE
    ELSE IF LastExt(lower) \in NormalisedExt(a.include_ext) THEN TRUE
    ELSE IF EndsWith(lower, <<"browse", "png">>) THEN a.include_browse_png
    ELSE IF EndsWith(lower, <<"mask", "tif">>) THEN a.include_masks
    ELSE IF EndsWith(lower, <<"pyr", "tif">>) THEN a.include_pyramids
    ELSE IF EndsWith(lower, <<"xml">>) THEN a.include_xml
    ELSE FALSE

\* Lines 137-171, the body of the loop: whether fn is appended to keep.
FilterDecision(fn, a) ==
    LET lower == Lower(fn) IN
    IF EndsWith(lower, <<"gif">>) \/ EndsWith(lower, <<"ico">>) THEN FALSE
    ELSE IF EndsWith(lower, <<"browse", "png">>) THEN a.include_browse_png
    ELSE IF EndsWith(lower, <<"mask", "tif">>) THEN a.include_masks
    ELSE IF EndsWith(lower, <<"pyr", "tif">>) THEN a.include_pyramids
    ELSE IF EndsWith(lower, <<"xml">>) THEN a.include_xml
    ELSE LastExt(lower) \in NormalisedExt(a.include_ext)

\* The names of a listing: those of the documented example, a lower-case
\* tile, an upper-case icon, a name without extension and a file named
\* "mask.tif".
FNames == {<<"A", "TIF">>, <<"A", "MASK", "TIF">>, <<"A", "PYR", "TIF">>,
           <<"A", "BROWSE", "PNG">>, <<"A", "xml">>, <<"icon", "ico">>,
           <<"b", "tif">>, <<"X", "GIF">>, <<"README">>, <<"mask", "tif">>}

ExampleNames == <<<<"A", "TIF">>, <<"A", "MASK", "TIF">>, <<"A", "PYR", "TIF">>,
                  <<"A", "BROWSE", "PNG">>, <<"A", "xml">>, <<"icon", "ico">>>>

\* Values of --ext: the default ["tif"], ".TIF", and a list naming the
\* extensions of the icon, preview and sidecar classes.
ExtArgs == {<<<<"tif">>>>, <<<<"", "TIF">>>>,
            <<<<"gif">>, <<"PNG">>, <<"xml">>>>}

\* One iteration of the loop over filenames.
FilterStep ==
    /\ f_pc = "loop"
    /\ f_i < Len(all_names)
    /\ f_i' = f_i + 1
    /\ LET fn == all_names[f_i + 1] IN
         keep' = IF FilterDecision(fn, f_args) THEN Append(keep, fn) ELSE keep
    /\ UNCHANGED <<all_names, f_args, f_pc, notFilter>>

\* return keep
FilterReturn ==
    /\ f_pc = "loop"
    /\ f_i = Len(all_names)
    /\ f_pc' = "returned"
    /\ UNCHANGED <<all_names, f_args, f_i, keep, notFilter>>

InitFilter ==
    /\ HeadIdle
    /\ CoreIdle
    /\ OdeIdle
    /\ VerifyIdle
    /\ ParseIdle
    /\ all_names \in {ExampleNames} \cup SeqsUpTo(FNames, MaxList)
    /\ f_args \in [include_ext : ExtArgs, include_masks : BOOLEAN,
                    include_pyramids : BOOLEAN, include_xml : BOOLEAN,
                    include_browse_png : BOOLEAN]
    /\ f_i = 0
    /\ keep = << >>
    /\ f_pc = "loop"

NextFilter == FilterStep \/ FilterReturn

SpecFilter == InitFilter /\ [][NextFilter]_vars

\* ---------------------------------------------- parse_index_for_filenames
\* download_lroc_nac_pole_south_cm_avg.py, lines 92-119.
\* An href is the sequence of its pieces: the characters "/" and "?" and
\* the runs of other characters between them ("..", "a", "b", "C=N").
\* The hrefs of a page: the parent directory and the root, plain names, a
\* directory, a sort link (query only), a name with a query, an absolute
\* path, a directory with a query, queries holding slashes, and "..".
Hrefs ==
    {<<"..", "/">>, <<"/">>, <<"a">>, <<"b">>, <<"b", "/">>,
     <<"?", "C=N">>, <<"a", "?", "C=N">>, <<"/", "b", "/", "a">>,
     <<"b", "/", "?", "a">>, <<"a", "?", "b", "/">>,
     <<"a", "?", "b", "/", "b">>, <<"..">>}

\* h.split("?", 1)[0]
RECURSIVE BeforeQuery(_)
BeforeQuery(h) ==
    IF h = << >> \/ Head(h) = "?" THEN << >>
    ELSE <<Head(h)>> \o BeforeQuery(Tail(h))

\* os.path.basename(h): what follows the last "/".
RECURSIVE Basename(_)
Basename(h) ==
    IF h = << >> THEN << >>
    ELSE IF h[Len(h)] = "/" THEN << >>
    ELSE Basename(SubSeq(h, 1, Len(h) - 1)) \o <<h[Len(h)]>>

NameAlways(name) == TRUE

\* if name:
NameTaken(name) == name # << >>

\* Lines 99-111, the body of the first loop: the names list after href h.
NamesAfter(ns, h) ==
    IF h = <<"..", "/">> \/ h = <<"/">> THEN ns
    ELSE IF h[Len(h)] = "/" THEN ns
    ELSE LET name == Basename(BeforeQuery(h)) IN
         IF NameTaken(name) THEN Append(ns, name) ELSE ns

\* Lines 115-118, the body of the second loop: out after name n.
UniqAfter(u, n) == IF InSeq(n, u) THEN u ELSE Append(u, n)

ParseHref ==
    /\ p_pc = "names"
    /\ IF p_i < Len(hrefs)
          THEN /\ names' = NamesAfter(names, hrefs[p_i + 1])
               /\ p_i' = p_i + 1
               /\ p_pc' = p_pc
          ELSE /\ p_pc' = "dedup"
               /\ p_i' = 0
               /\ names' = names
    /\ UNCHANGED <<hrefs, uniq, notParse>>

ParseDedup ==
    /\ p_pc = "dedup"
    /\ IF p_i < Len(names)
          THEN /\ uniq' = UniqAfter(uniq, names[p_i + 1])
               /\ p_i' = p_i + 1
               /\ p_pc' = p_pc
          ELSE /\ p_pc' = "returned"
               /\ UNCHANGED <<uniq, p_i>>
    /\ UNCHANGED <<hrefs, names, notParse>>

InitParse ==
    /\ HeadIdle
    /\ CoreIdle
    /\ OdeIdle
    /\ VerifyIdle
    /\ FilterIdle
    /\ hrefs \in {<< >>} \cup SeqsUpTo(Hrefs, MaxHrefs)
    /\ names = << >>
    /\ uniq = << >>
    /\ p_i = 0
    /\ p_pc = "names"

NextParse == ParseHref \/ ParseDedup

SpecParse == InitParse /\ [][NextParse]_vars

\* ------------------------------------------- remote_head and its callers
\* remote_head(session, url) is called (line 105 of download_with_resume,
\* line 56 of verify_files).
HeadCall ==
    /\ rh.pc = "head"
    /\ LET e == remote_head(rh.resp) IN
         rh' = [rh EXCEPT !.raised = e.raised, !.value = e.value,
                          !.pc = IF e.raised THEN "raised" ELSE "probed"]
    /\ UNCHANGED notHead

\* Lines 108-117 of download_with_resume: it returns at once or goes on
\* to its first GET.
HeadCallerDL ==
    /\ rh.pc = "probed"
    /\ rh.caller = "download_with_resume"
    /\ rh' = [rh EXCEPT !.pc = "continued",
                        !.after = EnterWith(Fresh("a"), rh.f, rh.value).pc]
    /\ UNCHANGED notHead

\* Lines 57-73 of verify_files: the name is classified.
HeadCallerVerify ==
    /\ rh.pc = "probed"
    /\ rh.caller = "verify_files"
    /\ rh' = [rh EXCEPT !.pc = "continued",
                        !.after = VerifyClass("lola", <<"T", "tif">>, rh.f,
                                              rh.value)]
    /\ UNCHANGED notHead

InitHead ==
    /\ CoreIdle
    /\ OdeIdle
    /\ VerifyIdle
    /\ FilterIdle
    /\ ParseIdle
    /\ \E c \in {"download_with_resume", "verify_files"}, r \in HeadResponses,
          f \in Files :
         rh = [IdleRH EXCEPT !.pc = "head", !.caller = c, !.resp = r, !.f = f]
    /\ ch = IdleCH

NextHead == HeadCall \/ HeadCallerDL \/ HeadCallerVerify

SpecHead == InitHead /\ [][NextHead]_vars

\* ------------------------------------------------------------ choose_files
\* A file dict of the listing: its filename (stem, tag, extension) and
\* its url.
FileDict(tag, ext, url) ==
    [stem |-> "NAC_DTM_X", tag |-> tag, ext |-> ext, url |-> url]

\* The dicts choose_files is run on: the main raster under two urls,
\* derived rasters in both cases, labels and a browse image.
FileDicts ==
    {FileDict("", "TIF", "u1"), FileDict("", "TIF", "u2"),
     FileDict("_SHADE", "TIF", "u1"), FileDict("_shade", "tif", "u1"),
     FileDict("", "LBL", "u1"), FileDict("_SHADE", "xml", "u1"),
     FileDict("", "jpg", "u1")}

ChooseCall ==
    /\ ch.pc = "call"
    /\ ch' = [ch EXCEPT !.pc = "returned",
                        !.picked = choose_files(ch.files, ch.mode)]
    /\ UNCHANGED notChoose

InitChoose ==
    /\ CoreIdle
    /\ OdeIdle
    /\ VerifyIdle
    /\ FilterIdle
    /\ ParseIdle
    /\ rh = IdleRH
    /\ \E fl \in {<< >>} \cup SeqsUpTo(FileDicts, MaxFiles), m \in Modes :
         ch = [IdleCH EXCEPT !.pc = "call", !.files = fl, !.mode = m]

NextChoose == ChooseCall

SpecChoose == InitChoose /\ [][NextChoose]_vars

\* ------------------------------------------------------------ the claims
Known(d) == d.remote_size # None

Active(d) == d.pc \in {"entry", "get", "stream", "sleep"}

\* C1 (resume correctness, as claimed): a call that finds 0 < k < R bytes
\* on disk, R known, sends its first GET with Range k, and if it returns
\* after a response it accepts (206 or 200) whose body arrived in full, the
\* file has R bytes.
C1_ResumeCorrectness ==
    \A j \in JobIds :
        LET d == dl[j] IN
        (Known(d) /\ 0 < d.entry_len /\ d.entry_len < d.remote_size) =>
            /\ (d.attempt = 1 /\ d.gets = 1) => d.headers = d.entry_len
            /\ (d.pc = "returned" /\ d.status \in {200, 206} /\ d.full)
                  => StatSize(fs[d.name]) = d.remote_size

\* C2 (idempotence, as claimed): a call made directly after a call that
\* returned without raising, the remote size known to both, returns at
\* once, sends no GET and does not open the file.
C2_SecondCallSendsNoGet ==
    \A j \in JobIds :
        LET d == dl[j] IN
        (d.prev = "returned" /\ d.prev_known /\ Known(d)) =>
            d.pc = "returned" /\ d.gets = 0 /\ d.opens = 0

\* C2 (idempotence, amended): whenever the remote size is known and the
\* local length equals it on entry, which covers a second call made after
\* a first call that left the file at the remote size, the call returns at
\* once, sends no GET and does not open the file.
C2_CompleteOnEntrySendsNoGet ==
    \A j \in JobIds :
        LET d == dl[j] IN
        (~(d.pc \in {"idle", "entry"}) /\ Known(d)
            /\ d.entry_len = d.remote_size) =>
            d.pc = "returned" /\ d.gets = 0 /\ d.opens = 0

C2_Witness ==
    /\ calls = 2
    /\ dl[1].prev = "returned"
    /\ dl[1].pc = "returned"
    /\ dl[1].remote_size = RemoteLen
    /\ dl[1].entry_len = RemoteLen
    /\ dl[1].gets = 0

\* C3 (retry bound): a call never sends more than max_retries GETs; it
\* raises only after exactly max_retries failed attempts, having slept 2,
\* 4, 8, 16, 30 (non-decreasing, at most 30, nothing after the last
\* failure); and every call that was entered ends, returning or raising.
RetryBound(d) ==
    /\ d.gets <= max_retries
    /\ Len(d.sleeps) <= max_retries - 1
    /\ \A i \in 1..Len(d.sleeps) :
          /\ d.sleeps[i] = Min(Pow2(i), 30)
          /\ d.sleeps[i] <= 30
          /\ i > 1 => d.sleeps[i - 1] <= d.sleeps[i]
    /\ d.pc = "raised" =>
          d.gets = max_retries /\ d.sleeps = <<2, 4, 8, 16, 30>>

C3_RetryBound ==
    /\ [](\A j \in JobIds : RetryBound(dl[j]))
    /\ \A j \in JobIds : Active(dl[j]) ~> Finished(dl[j])

C3_Witness ==
    \E j \in JobIds :
        /\ dl[j].pc = "raised"
        /\ dl[j].gets = max_retries
        /\ dl[j].sleeps = <<2, 4, 8, 16, 30>>

Raised == {j \in Jobs : dl[j].pc = "raised"}

Returned == {j \in Jobs : dl[j].pc = "returned"}

\* main has left the with block of the executor.
LeftPool == main_pc \in {"done", "uncaught"}

NoDup(q) == \A i, k \in 1..Len(q) : q[i] = q[k] => i = k

\* C4 (orchestration isolation, as claimed): when exactly one of the N
\* submitted transfers (N distinct descriptors) raises, the run's report
\* accounts for all N outcomes: every future was handed to the loop and
\* N-1 were counted as downloaded.
C4_ReportAccountsForAll ==
    (LeftPool /\ NoDup(remotes) /\ Cardinality(Raised) = 1) =>
        yielded = Jobs /\ done = Len(remotes) - 1

\* C5 (drain on failure): when main leaves the executor's with block, with
\* or without an exception, every submitted transfer was started once and
\* has run to its end; none is left queued, running or unstarted.
C5_DrainOnFailure ==
    LeftPool =>
        /\ submitted = Len(remotes)
        /\ queue = << >>
        /\ \A j \in Jobs : Finished(dl[j]) /\ dl[j].starts = 1

C5_Witness ==
    /\ main_pc = "uncaught"
    /\ Len(remotes) >= 2
    /\ NoDup(remotes)
    /\ Raised # {}
    /\ Returned # {}
    /\ yielded # Jobs

\* C6 (crash resume across runs, as claimed): in the invocation after an
\* interrupted one, every selected descriptor whose file holds 0 < k < R
\* bytes is handed to the transfer engine, that is, is left in remotes by
\* the pre-filter.  (In state "filtered" the files are as the pre-filter
\* saw them.)
C6_PartialFileIsResumed ==
    (main_pc = "filtered" /\ interrupted) =>
        \A i \in 1..Len(selected) :
            LET f == fs[selected[i]] IN
            (f.exists /\ 0 < f.size /\ f.size < RemoteLen)
                => InSeq(selected[i], remotes)

\* C7 (path exclusivity, as claimed): no two calls in flight write the same
\* destination.
C7_PathExclusive ==
    \A i, j \in InFlight : i # j => dl[i].name # dl[j].name

\* C8 (exit behaviour, as claimed): a run in which a transfer raised still
\* ends at "Done." with the exit status of a run without failures.
C8_FailureKeepsExit ==
    (Exited /\ main_pc # "killed" /\ NoDup(remotes) /\ Raised # {}) =>
        main_pc = "done" /\ ExitStatus = 0

Count(x, q) == Cardinality({i \in 1..Len(q) : q[i] = x})

\* C9 (pre-filter partition): after the pre-filter every selected
\* descriptor is in exactly one of existing (skipped) and remotes
\* (submitted), the two lists together hold the selected descriptors, the
\* futures are those of remotes, and a descriptor is skipped exactly when
\* its path existed when the pre-filter ran, whatever the file's size.
C9_PrefilterPartition ==
    (main_pc \notin {"start", "killed", "harness", "verified"}) =>
        /\ Len(existing) + Len(remotes) = Len(selected)
        /\ \A n \in Names :
              /\ Count(n, existing) + Count(n, remotes) = Count(n, selected)
              /\ ~(InSeq(n, existing) /\ InSeq(n, remotes))
        /\ submitted <= Len(remotes)
        /\ \A j \in Jobs : dl[j].pc # "idle" => dl[j].name = remotes[j]
        /\ main_pc = "filtered" =>
              \A i \in 1..Len(selected) :
                  InSeq(selected[i], existing) <=> fs[selected[i]].exists

C9_Witness ==
    /\ main_pc = "filtered"
    /\ Len(remotes) >= 1
    /\ \E i \in 1..Len(existing) :
          fs[existing[i]].exists /\ fs[existing[i]].size < RemoteLen

\* C10 (bounded concurrency): at most max_workers calls are in flight, no
\* job's call is started twice, and when the completion loop has finished
\* (and whenever main has left the pool block) every submitted job's call
\* has been started exactly once and has ended.
C10_BoundedConcurrency ==
    /\ Cardinality(InFlight) <= max_workers
    /\ \A j \in JobIds : dl[j].starts <= 1
    /\ ((main_pc \in {"shutdown", "done"} /\ ~exc) \/ LeftPool) =>
          \A j \in Jobs : dl[j].starts = 1 /\ Finished(dl[j])

C10_Witness ==
    /\ Cardinality(InFlight) = max_workers
    /\ queue # << >>
    /\ main_pc = "as_completed"

\* C11 (atomic publish, as claimed): during a call of stream_download the
\* destination is as it was on entry until the rename, a call that fails
\* leaves it so, and the rename is only done after the whole body of the
\* response was written to the ".part" sibling, so that the destination
\* never holds part of a body.
C11_AtomicPublish ==
    LET o == out[sd.path] IN
    /\ (sd.pc \in {"get", "stream", "replace", "raised"}) => o.final = sd.before
    /\ sd.renamed => sd.full

\* C12 (accepted statuses, as claimed): an attempt whose GET was answered
\* with a status other than 200 and 206 is a failed attempt: the file is
\* not opened or written for it and the call goes on to the retry path
\* (sleeps, or raises after the last attempt), never to the stream or to
\* a normal return.
C12_OnlyFullOrPartialAccepted ==
    \A j \in JobIds :
        LET d == dl[j] IN
        (d.gets > 0 /\ d.status \notin {0, 200, 206}) =>
            d.pc \notin {"stream", "returned"}

\* The length of the body of the response the attempt of d accepted.
BodyLen(d) ==
    IF d.status = 206 THEN RemoteLen - d.headers
    ELSE IF d.status = 200 THEN RemoteLen ELSE 0

\* The length of the file when the attempt of d had opened it.
OpenLen(d) == IF d.mode = "ab" THEN d.local_size ELSE 0

\* C13 (size mismatch is kept): when the stream of an attempt ended without
\* an exception and the known remote size differs from the file's length,
\* the call has returned normally, no attempt, sleep or GET follows it, and
\* the file is as the attempt wrote it: present, the bytes it held when
\* opened followed by the bytes written (all of the body if the response
\* arrived in full, fewer if not).
C13_MismatchKept ==
    \A j \in JobIds :
        LET d == dl[j]
            f == fs[d.name] IN
        (d.clean /\ Known(d) /\ StatSize(f) # d.remote_size) =>
            /\ d.pc = "returned"
            /\ d.gets = d.attempt
            /\ Len(d.sleeps) = d.attempt - 1
            /\ f.exists
            /\ f.size >= OpenLen(d)
            /\ f.size <= OpenLen(d) + BodyLen(d)
            /\ d.full => f.size = OpenLen(d) + BodyLen(d)

C13_Witness ==
    /\ dl[1].clean
    /\ dl[1].pc = "returned"
    /\ dl[1].remote_size = RemoteLen
    /\ dl[1].attempt > 1
    /\ fs["a"].exists
    /\ fs["a"].size # RemoteLen

\* The names verify_files has classified so far, with file, class and the
\* remote size it was given.
Verified ==
    {[name |-> filenames[i], f |-> v_disk[filenames[i]],
      class |-> v_log[i].class, remote |-> v_log[i].remote]
     : i \in 1..Len(v_log)}

\* C14 (verification classification, as claimed): every name handled is in
\* one class; Missing iff the file is absent; Complete if it is present
\* and its length equals the known remote size; Incomplete if it is
\* present, not a .xml name, and its length differs from the remote size
\* or the remote size is unknown; the three counts sum to the number of
\* names handled.
C14_VerifyClassification ==
    /\ \A v \in Verified :
          /\ v.class \in {"Missing", "Complete", "Incomplete"}
          /\ v.class = "Missing" <=> ~v.f.exists
          /\ (v.f.exists /\ v.remote # None /\ v.f.size = v.remote)
                => v.class = "Complete"
          /\ (v.f.exists /\ ~IsXml(v.name)
                /\ (v.remote = None \/ v.f.size # v.remote))
                => v.class = "Incomplete"
    /\ v_count.complete + v_count.incomplete + v_count.missing = Len(v_log)
    /\ v_pc = "returned" => Len(v_log) = Len(filenames)

\* C15 (Complete rule with sidecars, as claimed): in both scripts a present
\* file is Complete if its length equals the known remote size, whatever
\* its name, a present .xml file is Complete also if its length is above
\* 1024, and a present file meeting neither condition is Incomplete.
C15_CompleteRule ==
    \A v \in Verified :
        v.f.exists =>
            LET sizeMatch == v.remote # None /\ v.f.size = v.remote
                plausible == IsXml(v.name) /\ v.f.size > 1024
            IN IF sizeMatch \/ plausible THEN v.class = "Complete"
                                         ELSE v.class = "Incomplete"

\* C16 (the verifier is read-only): in a run with --verify no step creates,
\* changes or deletes a local file, no transfer call is made and so no GET
\* is sent, and main enters neither the pre-filter nor the worker pool: it
\* goes from its start to the return after verify_files.
C16_VerifyReadOnly ==
    /\ [](verify =>
            /\ main_pc \in {"start", "verified", "killed"}
            /\ existing = << >> /\ remotes = << >>
            /\ queue = << >> /\ submitted = 0
            /\ \A j \in JobIds : dl[j].pc = "idle" /\ dl[j].gets = 0)
    /\ [][verify => fs' = fs]_vars

C16_Witness ==
    /\ verify
    /\ main_pc = "verified"
    /\ \E n \in Names : InSeq(n, selected) /\ fs[n].exists
    /\ \E n \in Names : InSeq(n, selected) /\ ~fs[n].exists

\* The class of a name: that of the first rule its lower-case form matches.
ClassOf(fn) ==
    LET l == Lower(fn)
        last == l[Len(l)]
        before == IF Len(l) > 2 THEN l[Len(l) - 1] ELSE "" IN
    CASE Len(l) > 1 /\ last \in {"gif", "ico"} -> "icon"
      [] Len(l) > 2 /\ before = "browse" /\ last = "png" -> "browse"
      [] Len(l) > 2 /\ before = "mask" /\ last = "tif" -> "mask"
      [] Len(l) > 2 /\ before = "pyr" /\ last = "tif" -> "pyramid"
      [] Len(l) > 1 /\ last = "xml" -> "sidecar"
      [] OTHER -> "other"

\* The allow-list, case and leading dots of its entries put aside.
AllowList == {LStripDots(Lower(f_args.include_ext[i]))
              : i \in 1..Len(f_args.include_ext)}

\* What the claim says of one name under the flags of the run.
ToBeKept(fn) ==
    LET c == ClassOf(fn)
        l == Lower(fn) IN
    CASE c = "icon" -> FALSE
      [] c = "browse" -> f_args.include_browse_png
      [] c = "mask" -> f_args.include_masks
      [] c = "pyramid" -> f_args.include_pyramids
      [] c = "sidecar" -> f_args.include_xml
      [] OTHER -> (IF Len(l) > 1 THEN <<l[Len(l)]>> ELSE <<"">>) \in AllowList

DefaultFlags ==
    /\ f_args.include_ext = <<<<"tif">>>>
    /\ ~f_args.include_pyramids /\ ~f_args.include_xml
    /\ ~f_args.include_browse_png

\* C17 (listing filter): the list built so far is the names handled that
\* the rules keep (icon never; browse, mask, pyramid, sidecar by their
\* toggle whatever the allow-list; any other by its last extension), in
\* input order; the documented example yields A.TIF alone with the default
\* flags, and A.TIF, A.MASK.TIF with masks enabled.
C17_ListingFilter ==
    /\ keep = SelectSeq(SubSeq(all_names, 1, f_i), ToBeKept)
    /\ (f_pc = "returned" /\ all_names = ExampleNames /\ DefaultFlags) =>
          keep = IF f_args.include_masks
                    THEN <<<<"A", "TIF">>, <<"A", "MASK", "TIF">>>>
                    ELSE <<<<"A", "TIF">>>>

C17_Witness ==
    /\ f_pc = "returned"
    /\ all_names = ExampleNames
    /\ DefaultFlags
    /\ f_args.include_masks
    /\ keep = <<<<"A", "TIF">>, <<"A", "MASK", "TIF">>>>

\* The position of the first "?" of h, or one past its end.
QueryAt(h) ==
    IF \E k \in 1..Len(h) : h[k] = "?"
        THEN CHOOSE k \in 1..Len(h) :
                 h[k] = "?" /\ \A m \in 1..(k - 1) : h[m] # "?"
        ELSE Len(h) + 1

\* The position of the last "/" of h before position q, or 0.
SlashBefore(h, q) ==
    IF \E k \in 1..(q - 1) : h[k] = "/"
        THEN CHOOSE k \in 1..(q - 1) :
                 h[k] = "/" /\ \A m \in (k + 1)..(q - 1) : h[m] # "/"
        ELSE 0

\* The name an href stands for: its last path segment, query put aside.
ExtractedName(h) == SubSeq(h, SlashBefore(h, QueryAt(h)) + 1, QueryAt(h) - 1)

\* An href that names a file: not the parent directory or the root, not a
\* directory entry, and with a name left.
NamesAFile(h) ==
    /\ h # <<"..", "/">> /\ h # <<"/">>
    /\ h[Len(h)] # "/"
    /\ ExtractedName(h) # << >>

\* The index of the first href of the page that names a file called n.
FirstHref(n) ==
    CHOOSE k \in 1..Len(hrefs) :
        /\ NamesAFile(hrefs[k]) /\ ExtractedName(hrefs[k]) = n
        /\ \A m \in 1..(k - 1) :
              ~(NamesAFile(hrefs[m]) /\ ExtractedName(hrefs[m]) = n)

\* C18 (listing deduplication): the list returned holds no name twice;
\* it holds the name of every href that names a file, and nothing else;
\* the names stand in the order of their first hrefs; none is empty or
\* holds a "/" or a "?".
C18_ListingDedup ==
    p_pc = "returned" =>
        /\ NoDup(uniq)
        /\ \A k \in 1..Len(hrefs) :
              NamesAFile(hrefs[k]) => InSeq(ExtractedName(hrefs[k]), uniq)
        /\ \A i \in 1..Len(uniq) :
              /\ \E k \in 1..Len(hrefs) :
                    NamesAFile(hrefs[k]) /\ ExtractedName(hrefs[k]) = uniq[i]
              /\ uniq[i] # << >>
              /\ \A m \in 1..Len(uniq[i]) : uniq[i][m] \notin {"/", "?"}
        /\ \A i, j \in 1..Len(uniq) :
              i < j => FirstHref(uniq[i]) < FirstHref(uniq[j])

C18_Witness ==
    /\ p_pc = "returned"
    /\ hrefs = <<<<"a">>, <<"b">>, <<"/", "b", "/", "a">>>>
    /\ uniq = <<<<"a">>, <<"b">>>>

\* The (product, files) pairs that reached the dry-run listing or the
\* download loop.
Reached ==
    {o_hist.listed[i] : i \in 1..Len(o_hist.listed)}
    \cup {o_hist.visited[i] : i \in 1..Len(o_hist.visited)}

\* C19 as stated: every product that reaches the dry-run listing or the
\* download loop has a non-empty file list and reports a centre that lies
\* inside the requested box.
C19_ReportedCentreInBox ==
    \A pf \in Reached :
        /\ pf.files # << >>
        /\ pf.p.Center_latitude # None /\ pf.p.Center_longitude # None
        /\ o_args.bbox.minlat <= pf.p.Center_latitude
        /\ pf.p.Center_latitude <= o_args.bbox.maxlat
        /\ o_args.bbox.westlon <= pf.p.Center_longitude
        /\ pf.p.Center_longitude <= o_args.bbox.eastlon

\* The coordinate main compares: the one reported, 0 for one not reported.
Taken(c) == IF c = None THEN 0 ELSE c

\* C19 (geographic filter): every product that reaches the dry-run listing
\* or the download loop has a non-empty file list and a centre, a
\* coordinate the product does not report taken as 0, inside the requested
\* box; a product whose reported centre lies outside the box is never
\* listed or downloaded, whatever its file list.
C19_GeoFilter ==
    \A pf \in Reached :
        /\ pf.files # << >>
        /\ o_args.bbox.minlat <= Taken(pf.p.Center_latitude)
        /\ Taken(pf.p.Center_latitude) <= o_args.bbox.maxlat
        /\ o_args.bbox.westlon <= Taken(pf.p.Center_longitude)
        /\ Taken(pf.p.Center_longitude) <= o_args.bbox.eastlon

\* The download loop has gone through a response of two products with
\* files: the first, its centre east of the box, was left out, the second
\* was downloaded.
C19_Witness ==
    /\ o_pc = "done"
    /\ ~o_args.dry_run
    /\ o_args.bbox = [minlat |-> 1, maxlat |-> 1, westlon |-> 1, eastlon |-> 1]
    /\ Len(product_files) = 2
    /\ product_files[1].p.Center_longitude = 2
    /\ product_files[1].files # << >>
    /\ o_hist.visited = <<product_files[2]>>
    /\ o_hist.transfers > 0

\* The discovery request was answered and the discovery failed: no usable
\* response, or a response without an LRO/LROC SDNDTM set.
DiscoveryFailed ==
    /\ o_hist.iipt # << >>
    /\ \/ ~o_hist.iipt[1].ok
       \/ o_hist.iipt[1].sets \cap {IiptSet("LRO", "LROC", "SDNDTM"),
                                    IiptSet("lro", "lroc", "sdndtm")} = {}

\* C20 (fatal discovery): when the discovery fails the run has ended with
\* the exception, no product query was sent, the output directory and its
\* metadata file were not created, no file was created and no transfer
\* was started.
C20_FatalDiscovery ==
    DiscoveryFailed =>
        /\ o_pc = "uncaught"
        /\ o_hist.queries = 0
        /\ prod_json = << >>
        /\ o_dir = NoDir
        /\ \A p \in OutPaths : out[p] = NoFile
        /\ o_hist.transfers = 0

\* The response held sets, none of them LRO/LROC SDNDTM, and the run ended.
C20_Witness ==
    /\ o_pc = "uncaught"
    /\ o_hist.iipt = <<[ok |-> TRUE,
                        sets |-> {IiptSet("LRO", "LOLA", "SDNDTM"),
                                  IiptSet("LRO", "LROC", "EDRNAC")}]>>

\* The pairs of product_files that main is to keep: files found, centre
\* (0 for a coordinate not reported) inside the box.
Downloadable ==
    SelectSeq(product_files,
              LAMBDA pf :
                  /\ pf.files # << >>
                  /\ o_args.bbox.minlat <= Taken(pf.p.Center_latitude)
                  /\ Taken(pf.p.Center_latitude) <= o_args.bbox.maxlat
                  /\ o_args.bbox.westlon <= Taken(pf.p.Center_longitude)
                  /\ Taken(pf.p.Center_longitude) <= o_args.bbox.eastlon)

\* C21 (enumeration failure is isolated): a product whose files page could
\* not be fetched has an empty file list and is in neither the
\* downloadable set, the listing nor the download loop; the run does not
\* end with an exception before a transfer because of it; once the
\* enumeration is over every product of the response has its pair, the
\* downloadable set is made of exactly the pairs with files and a centre
\* inside the box, and a run that ends normally has listed or begun each
\* of them.
C21_FetchFailureIsolated ==
    /\ \A i \in 1..Len(o_hist.fetches) :
          ~o_hist.fetches[i] =>
              /\ product_files[i].files = << >>
              /\ \A k \in 1..Len(filtered) : filtered[k] # product_files[i]
              /\ product_files[i] \notin Reached
    /\ (o_pc = "uncaught" /\ o_hist.fetches # << >>) => o_hist.transfers > 0
    /\ o_pc \in {"list", "loop", "done"} =>
          /\ Len(product_files) = Len(prod_json)
          /\ \A i \in 1..Len(prod_json) : product_files[i].p = prod_json[i]
          /\ filtered = Downloadable
    /\ o_pc = "done" => \A k \in 1..Len(filtered) : filtered[k] \in Reached

\* The fetch failed for the first product and the second, inside the box
\* with files, was downloaded to the end of the run.
C21_Witness ==
    /\ o_pc = "done"
    /\ o_hist.fetches = <<FALSE, TRUE>>
    /\ o_hist.visited = <<product_files[2]>>
    /\ o_hist.transfers > 0

\* The HEAD probe gave no length: an exception, a status of 400 or more,
\* no Content-Length header, or one that is not a number.
ProbeFailed(r) ==
    \/ r.status = 0
    \/ r.status >= 400
    \/ ~r.cl.present
    \/ r.cl.value \in {<< >>, <<"1", "k">>}

\* C22 (the size probe never propagates an error): remote_head does not
\* raise; it returns None for an exception, a status >= 400, a missing or
\* a non-numeric Content-Length, and the length for a status below 400
\* with a numeric Content-Length; after None download_with_resume goes on
\* to its GET and verify_files classifies the name.
C22_HeadNeverRaises ==
    rh.pc \notin {"idle", "head"} =>
        /\ rh.pc # "raised" /\ ~rh.raised
        /\ ProbeFailed(rh.resp) => rh.value = None
        /\ ~ProbeFailed(rh.resp) => rh.value = RemoteLen /\ rh.value # None
        /\ (rh.pc = "continued" /\ rh.value = None) =>
              rh.after \in (IF rh.caller = "download_with_resume"
                               THEN {"get"}
                               ELSE {"Missing", "Incomplete"})

\* A 200 response whose Content-Length is not a number: None came back
\* and download_with_resume went on to its GET.
C22_Witness ==
    /\ rh.pc = "continued"
    /\ rh.caller = "download_with_resume"
    /\ rh.resp = [status |-> 200, cl |-> Header(<<"1", "k">>)]
    /\ rh.value = None
    /\ rh.after = "get"

\* C23 (the resume point is derived again for every attempt): whenever
\* download_with_resume is about to send a GET, on its first attempt and
\* on every retry, the Range header it sends starts at the length the
\* destination has on disk if that length is above 0 and holds no byte
\* range if it is 0, and the mode it opens the file in is "ab" exactly if
\* the length is above 0.
C23_ResumePointRederived ==
    \A j \in JobIds :
        dl[j].pc = "get" =>
            LET len == StatSize(fs[dl[j].name]) IN
            /\ len > 0 => dl[j].headers = len
            /\ len = 0 => dl[j].headers \in {NoRange, EmptyRange}
            /\ dl[j].mode = "ab" <=> len > 0

\* A retry after an attempt that failed having written to a destination
\* that was empty on entry.
C23_Witness ==
    /\ dl[1].pc = "get"
    /\ dl[1].attempt = 2
    /\ dl[1].entry_len = 0
    /\ StatSize(fs["a"]) > 0
    /\ dl[1].headers = StatSize(fs["a"])

\* C24 (writes append): no step of a download_with_resume call makes the
\* destination shorter or removes it, and a file is opened in "wb" mode,
\* which writes from offset 0, only when nothing is on disk; every other
\* open is in "ab" mode, which writes at the end of the file.
C24_AppendOnly ==
    [][/\ StatSize(fs'["a"]) >= StatSize(fs["a"])
       /\ fs["a"].exists => fs'["a"].exists
       /\ (dl[1].pc = "get" /\ dl'[1].pc = "stream") =>
             /\ dl[1].mode = "wb" => StatSize(fs["a"]) = 0
             /\ dl[1].mode = "ab" => fs'["a"] = [exists |-> TRUE,
                                                 size |-> StatSize(fs["a"])]]_vars

\* A second attempt, sent after a first that failed having written part
\* of the object, appended the rest.
C24_Witness ==
    /\ dl[1].pc = "returned"
    /\ dl[1].attempt = 2
    /\ dl[1].entry_len = 0
    /\ dl[1].mode = "ab"
    /\ dl[1].status = 206
    /\ fs["a"] = FileOfLen(RemoteLen)

\* A name that ends in .tif, whatever the case.
TifName(f) == f.ext \in {"TIF", "tif"}

\* A name that holds one of the derivative tags, whatever the case.
DerivativeName(f) == f.tag \in {"_SHADE", "_shade"}

\* A name that ends in .lbl or .xml, whatever the case.
LabelName(f) == f.ext \in {"LBL", "lbl", "XML", "xml"}

Entries(s) == {s[i] : i \in 1..Len(s)}

FilenameOf(f) == <<f.stem, f.tag, f.ext>>

\* The names mode "dtm" is to return: the rasters without a derivative
\* tag or, if there is none, all rasters; and the labels.
DtmNames(files) ==
    LET T == {f \in Entries(files) : TifName(f)}
        M == {f \in T : ~DerivativeName(f)}
    IN {FilenameOf(f) : f \in (IF M = {} THEN T ELSE M)}
       \cup {FilenameOf(f) : f \in {g \in Entries(files) : LabelName(g)}}

\* C25 (file selection): mode "all" returns the list as given; mode
\* "all_tif" returns its .tif files, in order; mode "dtm" returns dicts of
\* the list, one per filename, whose names are those of the rasters
\* without a derivative tag (of all rasters if there is none) and of the
\* labels, so that a derivative raster is returned only if no raster is
\* without a tag.
C25_ChooseFiles ==
    ch.pc = "returned" =>
        /\ ch.mode = "all" => ch.picked = ch.files
        /\ ch.mode = "all_tif" => ch.picked = SelectSeq(ch.files, TifName)
        /\ ch.mode = "dtm" =>
              /\ Entries(ch.picked) \subseteq Entries(ch.files)
              /\ {FilenameOf(f) : f \in Entries(ch.picked)} = DtmNames(ch.files)
              /\ \A i, k \in 1..Len(ch.picked) :
                    FilenameOf(ch.picked[i]) = FilenameOf(ch.picked[k]) => i = k
              /\ \A f \in Entries(ch.picked) :
                    (TifName(f) /\ DerivativeName(f)) =>
                        \A g \in Entries(ch.files) :
                            TifName(g) => DerivativeName(g)

\* Mode "dtm" on the main raster listed under two urls with a derived
\* raster between them: one entry for the main raster, none for the other.
C25_Witness ==
    /\ ch.pc = "returned"
    /\ ch.mode = "dtm"
    /\ ch.files = <<FileDict("", "TIF", "u1"), FileDict("_shade", "tif", "u1"),
                    FileDict("", "TIF", "u2")>>
    /\ ch.picked = <<FileDict("", "TIF", "u2")>>

\* C26 (a transfer failure is isolated): when a run of the catalog-query
\* script has ended after a call of stream_download, every product of the
\* filtered set was begun and every picked file of the last was attempted.
C26_TransferFailureIsolated ==
    (o_pc \in {"done", "uncaught"} /\ o_hist.transfers > 0) =>
        /\ o_pos.i = Len(filtered)
        /\ o_pos.k >= Len(Picked)

\* C27 (a complete file is not reported as failed): when
\* download_with_resume has raised and knows the remote size, the length
\* of the destination differs from it.
C27_CompleteNeverFailed ==
    (dl[1].pc = "raised" /\ dl[1].remote_size # None) =>
        StatSize(fs["a"]) # dl[1].remote_size

=============================================================================
